---- MODULE Spec2Model ----
(***************************************************************************)
(* Offset resolution protocol of rust-chrono: the zone-aware Date wrapper  *)
(* (src/src/date.rs) and the conversions of the time zone trait            *)
(* (src/src/offset/mod.rs).                                                *)
(*                                                                         *)
(* A NaiveDate is modelled as its day number in the proleptic Gregorian    *)
(* calendar (day 1 is 0001-01-01, a Monday); a Duration is a signed number *)
(* of seconds; a NaiveTime is its second of the day plus its fractional    *)
(* nanoseconds.  A call either returns (Ret) or panics (Panic).            *)
(***************************************************************************)
EXTENDS Integers, Sequences, FiniteSets, TLC

\* The representable years of NaiveDate, as whole years around 2012
\* (naive::date::MIN is January 1 of MinYear, naive::date::MAX is December 31
\* of MaxYear).
YearsBefore == 1
YearsAfter == 0
MinYear == 2012 - YearsBefore
MaxYear == 2012 + YearsAfter

-----------------------------------------------------------------------------
(* Outcomes of a call, Option and LocalResult.                             *)

Ret(v) == [kind |-> "ret", v |-> v]
\* A panic carries its message and the values the message formats.
Panic(msg) == [kind |-> "panic", msg |-> msg, args |-> << >>]
PanicWith(msg, args) == [kind |-> "panic", msg |-> msg, args |-> args]
IsRet(r) == r.kind = "ret"
IsPanic(r) == r.kind = "panic"

Some(v) == [kind |-> "Some", v |-> v]
OptNone == [kind |-> "None"]
IsSome(o) == o.kind = "Some"

LocalResult_None == [kind |-> "None"]
LocalResult_Single(t) == [kind |-> "Single", t |-> t]
LocalResult_Ambiguous(min, max) == [kind |-> "Ambiguous", min |-> min, max |-> max]

-----------------------------------------------------------------------------
(* The calendar-naive engine: NaiveDate.                                   *)

IsLeapYear(y) == (y % 4 = 0 /\ y % 100 # 0) \/ y % 400 = 0

DaysInMonth(y, m) ==
  IF m = 2 THEN (IF IsLeapYear(y) THEN 29 ELSE 28)
  ELSE IF m \in {4, 6, 9, 11} THEN 30 ELSE 31

\* Days of year y before the first of month m.
DaysBeforeMonth(y, m) ==
  LET base == <<0, 31, 59, 90, 120, 151, 181, 212, 243, 273, 304, 334>>[m]
  IN IF m > 2 /\ IsLeapYear(y) THEN base + 1 ELSE base

\* Days before January 1 of year y (y >= 1).
DaysBeforeYear(y) ==
  365 * (y - 1) + ((y - 1) \div 4) - ((y - 1) \div 100) + ((y - 1) \div 400)

NaiveDate_MIN == DaysBeforeYear(MinYear) + 1
NaiveDate_MAX == DaysBeforeYear(MaxYear + 1)
NaiveDates == NaiveDate_MIN .. NaiveDate_MAX

NaiveDate_from_yo_opt(year, ordinal) ==
  IF year \in MinYear .. MaxYear /\ ordinal >= 1 /\ ordinal <= (IF IsLeapYear(year) THEN 366 ELSE 365)
  THEN Some(DaysBeforeYear(year) + ordinal)
  ELSE OptNone

NaiveDate_from_ymd_opt(year, month, day) ==
  IF month >= 1 /\ month <= 12 /\ day >= 1 /\ day <= DaysInMonth(year, month)
  THEN NaiveDate_from_yo_opt(year, DaysBeforeMonth(year, month) + day)
  ELSE OptNone

NaiveDate_year(d) ==
  CHOOSE y \in MinYear .. MaxYear : DaysBeforeYear(y) < d /\ d <= DaysBeforeYear(y + 1)
NaiveDate_ordinal(d) == d - DaysBeforeYear(NaiveDate_year(d))
NaiveDate_month(d) ==
  LET y == NaiveDate_year(d)
      o == NaiveDate_ordinal(d)
  IN CHOOSE m \in 1 .. 12 :
       DaysBeforeMonth(y, m) < o /\ o <= DaysBeforeMonth(y, m) + DaysInMonth(y, m)
NaiveDate_day(d) ==
  NaiveDate_ordinal(d) - DaysBeforeMonth(NaiveDate_year(d), NaiveDate_month(d))

\* Monday is 0 ... Sunday is 6, for any day number.
WeekdayOf(n) == (n - 1) % 7

\* The ISO 8601 week date: week 1 is the week (Monday first) holding January 4.
IsoWeek1Monday(year) ==
  LET jan4 == DaysBeforeYear(year) + 4 IN jan4 - WeekdayOf(jan4)
NaiveDate_from_isoywd_opt(year, week, weekday) ==
  LET n == IsoWeek1Monday(year) + (week - 1) * 7 + weekday
      weeks == (IsoWeek1Monday(year + 1) - IsoWeek1Monday(year)) \div 7
  IN IF year \in MinYear .. MaxYear /\ week >= 1 /\ week <= weeks
        /\ n \in NaiveDates
     THEN Some(n) ELSE OptNone

NaiveDate_succ_opt(d) == IF d < NaiveDate_MAX THEN Some(d + 1) ELSE OptNone
NaiveDate_pred_opt(d) == IF d > NaiveDate_MIN THEN Some(d - 1) ELSE OptNone

NaiveDate_with_year(d, year) ==
  NaiveDate_from_ymd_opt(year, NaiveDate_month(d), NaiveDate_day(d))
NaiveDate_with_month(d, month) ==
  NaiveDate_from_ymd_opt(NaiveDate_year(d), month, NaiveDate_day(d))
NaiveDate_with_month0(d, month0) == NaiveDate_with_month(d, month0 + 1)
NaiveDate_with_day(d, day) ==
  NaiveDate_from_ymd_opt(NaiveDate_year(d), NaiveDate_month(d), day)
NaiveDate_with_day0(d, day0) == NaiveDate_with_day(d, day0 + 1)
NaiveDate_with_ordinal(d, ordinal) == NaiveDate_from_yo_opt(NaiveDate_year(d), ordinal)
NaiveDate_with_ordinal0(d, ordinal0) == NaiveDate_with_ordinal(d, ordinal0 + 1)

\* Duration::num_days: the whole days of a duration, truncated towards zero.
Duration_days(n) == n * 86400
Duration_num_days(dur) ==
  IF dur >= 0 THEN dur \div 86400 ELSE -((-dur) \div 86400)

\* NaiveDate + Duration adds the whole days of the duration and panics when
\* the sum leaves the representable range; NaiveDate - Duration adds the
\* negated duration.
NaiveDate_add(d, rhs) ==
  LET n == d + Duration_num_days(rhs)
  IN IF n \in NaiveDates THEN Ret(n) ELSE Panic("NaiveDate out of range")
\* NaiveDate - NaiveDate.
NaiveDate_diff(a, b) == Duration_days(a - b)

Pad2(n) == IF n < 10 THEN "0" \o ToString(n) ELSE ToString(n)
\* {:?} of a NaiveDate of a year in 1000 .. 9999.
NaiveDate_debug(d) ==
  ToString(NaiveDate_year(d)) \o "-" \o Pad2(NaiveDate_month(d)) \o "-"
    \o Pad2(NaiveDate_day(d))

-----------------------------------------------------------------------------
(* Offsets and time zones.  An offset remembers the zone that made it and  *)
(* its fixed skew, local minus UTC, as a Duration.                         *)

Offset(tz, lmu) == [tz |-> tz, lmu |-> lmu]
local_minus_utc(offset) == offset.lmu
\* TimeZone::from_offset: the zone of an offset.
from_offset(offset) == offset.tz

\* UTC and the test zone UTC1y are fixed.  Varying is a zone with two
\* transitions, as a zone with a summer time has: its skew is one day from
\* the canonical date SpringDate up to, not including, FallDate, and zero
\* otherwise.  The local date SpringDate does not exist (a gap) and the local
\* date FallDate exists twice (a fold).
TimeZones == {"UTC", "UTC1y", "Varying"}
SpringDate == DaysBeforeYear(2012) + 182
FallDate == DaysBeforeYear(2012) + 365

UTC_offset == Offset("UTC", 0)
OneYear == Offset("UTC1y", Duration_days(365))

UTC1y_offset_from_utc_date(utc) == OneYear
UTC1y_offset_from_local_date(local) == LocalResult_Single(OneYear)

\* The skew in force on a canonical date.
Varying_skew(utc) ==
  IF SpringDate <= utc /\ utc < FallDate THEN Duration_days(1) ELSE 0

Varying_offset_from_utc_date(utc) == Offset("Varying", Varying_skew(utc))

\* The offsets whose canonical date (local minus skew) is a representable
\* date on which that skew is in force; the earlier canonical date, which is
\* the one of the larger skew, comes first.
Varying_resolve(summer, winter) ==
  IF summer /\ winter
  THEN LocalResult_Ambiguous(Offset("Varying", Duration_days(1)), Offset("Varying", 0))
  ELSE IF summer THEN LocalResult_Single(Offset("Varying", Duration_days(1)))
  ELSE IF winter THEN LocalResult_Single(Offset("Varying", 0))
  ELSE LocalResult_None

Varying_offset_from_local_date(local) ==
  Varying_resolve(
    local - 1 \in NaiveDates /\ Varying_skew(local - 1) = Duration_days(1),
    Varying_skew(local) = 0)

offset_from_utc_date(tz, utc) ==
  CASE tz = "UTC" -> UTC_offset
    [] tz = "UTC1y" -> UTC1y_offset_from_utc_date(utc)
    [] tz = "Varying" -> Varying_offset_from_utc_date(utc)

offset_from_local_date(tz, local) ==
  CASE tz = "UTC" -> LocalResult_Single(UTC_offset)
    [] tz = "UTC1y" -> UTC1y_offset_from_local_date(local)
    [] tz = "Varying" -> Varying_offset_from_local_date(local)

\* Every offset a zone of the model produces.
Offsets == {UTC_offset, OneYear, Offset("Varying", 0), Offset("Varying", Duration_days(1))}

\* {:?} of an offset: OneYear prints a literal; the others print their skew
\* as hours and minutes.
Offset_debug(offset) ==
  IF offset.tz = "UTC1y" THEN "+8760:00"
  ELSE IF offset.tz = "UTC" THEN "Z"
  ELSE LET lmu == local_minus_utc(offset)
           a == IF lmu < 0 THEN -lmu ELSE lmu
       IN (IF lmu < 0 THEN "-" ELSE "+") \o Pad2(a \div 3600) \o ":"
            \o Pad2((a % 3600) \div 60)

-----------------------------------------------------------------------------
(* LocalResult (src/src/offset/mod.rs).                                    *)

\* single guessing the earlier candidate of an Ambiguous result.
single_or_earlier(self) ==
  IF self.kind = "Single" THEN Some(self.t)
  ELSE IF self.kind = "Ambiguous" THEN Some(self.min) ELSE OptNone

single(self) == IF self.kind = "Single" THEN Some(self.t) ELSE OptNone

earliest(self) ==
  IF self.kind = "Single" THEN Some(self.t)
  ELSE IF self.kind = "Ambiguous" THEN Some(self.min) ELSE OptNone

\* latest yielding the first member of an Ambiguous result, as earliest does.
latest_or_earlier(self) ==
  IF self.kind = "Single" THEN Some(self.t)
  ELSE IF self.kind = "Ambiguous" THEN Some(self.min) ELSE OptNone

latest(self) ==
  IF self.kind = "Single" THEN Some(self.t)
  ELSE IF self.kind = "Ambiguous" THEN Some(self.max) ELSE OptNone

\* map putting the two members of an Ambiguous result the other way round.
LocalResult_map_swapped(self, f) ==
  CASE self.kind = "None" -> Ret(LocalResult_None)
    [] self.kind = "Single" ->
         (LET v == f[self.t]
          IN IF IsPanic(v) THEN v ELSE Ret(LocalResult_Single(v.v)))
    [] self.kind = "Ambiguous" ->
         (LET a == f[self.min]
              b == f[self.max]
          IN IF IsPanic(a) THEN a
             ELSE IF IsPanic(b) THEN b
             ELSE Ret(LocalResult_Ambiguous(b.v, a.v)))

\* map with a closure that may panic: the closure is applied to min, then max.
\* The closure f is a function of the value it is applied to.
LocalResult_map(self, f) ==
  CASE self.kind = "None" -> Ret(LocalResult_None)
    [] self.kind = "Single" ->
         (LET v == f[self.t]
          IN IF IsPanic(v) THEN v ELSE Ret(LocalResult_Single(v.v)))
    [] self.kind = "Ambiguous" ->
         (LET a == f[self.min]
              b == f[self.max]
          IN IF IsPanic(a) THEN a
             ELSE IF IsPanic(b) THEN b
             ELSE Ret(LocalResult_Ambiguous(a.v, b.v)))

-----------------------------------------------------------------------------
(* Date (src/src/date.rs): a canonical NaiveDate and an offset.            *)

Date_from_utc(date, offset) == [date |-> date, offset |-> offset]

timezone(self) == from_offset(self.offset)
naive_utc(self) == self.date
naive_local(self) == NaiveDate_add(self.date, local_minus_utc(self.offset))

from_utc_date(tz, utc) == Date_from_utc(utc, offset_from_utc_date(tz, utc))

from_local_date(tz, local) ==
  LocalResult_map(offset_from_local_date(tz, local),
    [state \in Offsets |->
      LET utc == NaiveDate_add(local, -local_minus_utc(state))
      IN IF IsPanic(utc) THEN utc ELSE Ret(Date_from_utc(utc.v, state))])

\* {:?} of a Date: the local date, then the offset.
Date_debug(self) ==
  LET local == naive_local(self)
  IN IF IsPanic(local) THEN local
     ELSE Ret(NaiveDate_debug(local.v) \o Offset_debug(self.offset))

\* unwrap settling an Ambiguous result on its earlier candidate.
unwrap_or_earlier(self) ==
  CASE self.kind = "None" -> Panic("No such local time")
    [] self.kind = "Single" -> Ret(self.t)
    [] self.kind = "Ambiguous" -> Ret(self.min)

unwrap(self) ==
  CASE self.kind = "None" -> Panic("No such local time")
    [] self.kind = "Single" -> Ret(self.t)
    [] self.kind = "Ambiguous" ->
         PanicWith("Ambiguous local time, ranging from {:?} to {:?}",
                   <<self.min, self.max>>)

ymd_opt(tz, year, month, day) ==
  LET d == NaiveDate_from_ymd_opt(year, month, day)
  IN IF IsSome(d) THEN from_local_date(tz, d.v) ELSE Ret(LocalResult_None)

ymd(tz, year, month, day) ==
  LET r == ymd_opt(tz, year, month, day)
  IN IF IsPanic(r) THEN r ELSE unwrap(r.v)

yo_opt(tz, year, ordinal) ==
  LET d == NaiveDate_from_yo_opt(year, ordinal)
  IN IF IsSome(d) THEN from_local_date(tz, d.v) ELSE Ret(LocalResult_None)

yo(tz, year, ordinal) ==
  LET r == yo_opt(tz, year, ordinal)
  IN IF IsPanic(r) THEN r ELSE unwrap(r.v)

isoywd_opt(tz, year, week, weekday) ==
  LET d == NaiveDate_from_isoywd_opt(year, week, weekday)
  IN IF IsSome(d) THEN from_local_date(tz, d.v) ELSE Ret(LocalResult_None)

isoywd(tz, year, week, weekday) ==
  LET r == isoywd_opt(tz, year, week, weekday)
  IN IF IsPanic(r) THEN r ELSE unwrap(r.v)

\* succ_opt staying on the last date instead of returning None.
succ_opt_saturating(self) ==
  LET d == NaiveDate_succ_opt(self.date)
  IN IF IsSome(d) THEN Some(Date_from_utc(d.v, self.offset)) ELSE Some(self)

succ_opt(self) ==
  LET d == NaiveDate_succ_opt(self.date)
  IN IF IsSome(d) THEN Some(Date_from_utc(d.v, self.offset)) ELSE OptNone

\* Option::expect.
expect(o, msg) == IF IsSome(o) THEN Ret(o.v) ELSE Panic(msg)

succ(self) == expect(succ_opt(self), "out of bound")

\* pred_opt stepping forwards, as succ_opt does.
pred_opt_forwards(self) ==
  LET d == NaiveDate_succ_opt(self.date)
  IN IF IsSome(d) THEN Some(Date_from_utc(d.v, self.offset)) ELSE OptNone

pred_opt(self) ==
  LET d == NaiveDate_pred_opt(self.date)
  IN IF IsSome(d) THEN Some(Date_from_utc(d.v, self.offset)) ELSE OptNone

pred(self) == expect(pred_opt(self), "out of bound")

\* with_timezone handing the local date, not the canonical one, to the zone.
with_timezone_of_local(self, tz) ==
  LET local == naive_local(self)
  IN from_utc_date(tz, IF IsRet(local) THEN local.v ELSE self.date)

with_timezone(self, tz) == from_utc_date(tz, self.date)

\* The closure f is a function of the local date.
map_local(d, f) ==
  LET local == naive_local(d)
  IN IF IsPanic(local) THEN local
     ELSE LET date == f[local.v]
          IN IF ~IsSome(date) THEN Ret(OptNone)
             ELSE LET r == from_local_date(timezone(d), date.v)
                  IN IF IsPanic(r) THEN r ELSE Ret(single(r.v))

with_year(self, year) == map_local(self, [date \in NaiveDates |-> NaiveDate_with_year(date, year)])
with_month(self, month) == map_local(self, [date \in NaiveDates |-> NaiveDate_with_month(date, month)])
with_month0(self, month0) == map_local(self, [date \in NaiveDates |-> NaiveDate_with_month0(date, month0)])
with_day(self, day) == map_local(self, [date \in NaiveDates |-> NaiveDate_with_day(date, day)])
with_day0(self, day0) == map_local(self, [date \in NaiveDates |-> NaiveDate_with_day0(date, day0)])
with_ordinal(self, ordinal) == map_local(self, [date \in NaiveDates |-> NaiveDate_with_ordinal(date, ordinal)])
with_ordinal0(self, ordinal0) == map_local(self, [date \in NaiveDates |-> NaiveDate_with_ordinal0(date, ordinal0)])

\* eq as a comparison of the whole value, offset included.
eq_with_offset(self, other) == self.date = other.date /\ self.offset = other.offset

\* PartialEq between dates of any two zones.
eq(self, other) == self.date = other.date

\* PartialOrd and Ord: dates are ordered by their canonical dates.
Date_le(self, other) == self.date <= other.date

\* Date + Duration asking the zone for the offset of the new canonical date.
Date_add_resolving(self, rhs) ==
  LET date == NaiveDate_add(self.date, rhs)
  IN IF IsPanic(date) THEN date ELSE Ret(from_utc_date(timezone(self), date.v))

Date_add(self, rhs) ==
  LET date == NaiveDate_add(self.date, rhs)
  IN IF IsPanic(date) THEN date ELSE Ret([date |-> date.v, offset |-> self.offset])

Date_sub_duration(self, rhs) == Date_add(self, -rhs)

\* Date - Date, of any two zones.
Date_sub(self, rhs) == NaiveDate_diff(self.date, rhs.date)

-----------------------------------------------------------------------------
(* NaiveTime, NaiveDateTime and the zone-aware Time and DateTime.          *)

NaiveTime_from_hms_nano_opt(hour, min, sec, nano) ==
  IF hour < 24 /\ min < 60 /\ sec < 60 /\ nano < 2000000000
  THEN Some([secs |-> hour * 3600 + min * 60 + sec, frac |-> nano])
  ELSE OptNone
NaiveTime_from_hms_opt(hour, min, sec) == NaiveTime_from_hms_nano_opt(hour, min, sec, 0)
\* milli * 1,000,000 (micro * 1,000) is a checked multiplication; a product
\* of 2,000,000,000 or more is refused either way.
NaiveTime_from_hms_milli_opt(hour, min, sec, milli) ==
  IF milli >= 2000 THEN OptNone
  ELSE NaiveTime_from_hms_nano_opt(hour, min, sec, milli * 1000000)
NaiveTime_from_hms_micro_opt(hour, min, sec, micro) ==
  IF micro >= 2000000 THEN OptNone
  ELSE NaiveTime_from_hms_nano_opt(hour, min, sec, micro * 1000)

\* NaiveTime - Duration wraps around the day.
NaiveTime_sub(t, rhs) == [secs |-> (t.secs - rhs) % 86400, frac |-> t.frac]

NaiveDate_and_time(d, time) == [date |-> d, time |-> time]

\* NaiveDateTime - Duration: the time wraps, the date takes the carry and
\* panics when it leaves the representable range.
NaiveDateTime_sub(dt, rhs) ==
  LET n == dt.date + ((dt.time.secs - rhs) \div 86400)
  IN IF n \in NaiveDates
     THEN Ret([date |-> n, time |-> NaiveTime_sub(dt.time, rhs)])
     ELSE Panic("NaiveDate out of range")

UTC1y_offset_from_local_time(local) == LocalResult_Single(OneYear)
UTC1y_offset_from_local_datetime(local) == LocalResult_Single(OneYear)

\* A local date and time is some time of the local date: it resolves as the
\* local date does, the transitions being at midnight.
Varying_offset_from_local_datetime(local) ==
  LET summer == local.date + ((local.time.secs - Duration_days(1)) \div 86400)
      winter == local.date + (local.time.secs \div 86400)
  IN Varying_resolve(
       summer \in NaiveDates /\ Varying_skew(summer) = Duration_days(1),
       Varying_skew(winter) = 0)

offset_from_local_time(tz, local) ==
  CASE tz = "UTC" -> LocalResult_Single(UTC_offset)
    [] tz = "UTC1y" -> UTC1y_offset_from_local_time(local)
    \* a time of day alone is on no date: Varying answers with its winter skew
    [] tz = "Varying" -> LocalResult_Single(Offset("Varying", 0))

offset_from_local_datetime(tz, local) ==
  CASE tz = "UTC" -> LocalResult_Single(UTC_offset)
    [] tz = "UTC1y" -> UTC1y_offset_from_local_datetime(local)
    [] tz = "Varying" -> Varying_offset_from_local_datetime(local)

Time_from_utc(time, offset) == [time |-> time, offset |-> offset]
DateTime_from_utc(datetime, offset) == [datetime |-> datetime, offset |-> offset]

from_local_time(tz, local) ==
  LocalResult_map(offset_from_local_time(tz, local),
    [state \in Offsets |->
      Ret(Time_from_utc(NaiveTime_sub(local, local_minus_utc(state)), state))])

from_local_datetime(tz, local) ==
  LocalResult_map(offset_from_local_datetime(tz, local),
    [state \in Offsets |->
      LET utc == NaiveDateTime_sub(local, local_minus_utc(state))
      IN IF IsPanic(utc) THEN utc ELSE Ret(DateTime_from_utc(utc.v, state))])

hms_opt(tz, hour, min, sec) ==
  LET t == NaiveTime_from_hms_opt(hour, min, sec)
  IN IF IsSome(t) THEN from_local_time(tz, t.v) ELSE Ret(LocalResult_None)
hms(tz, hour, min, sec) ==
  LET r == hms_opt(tz, hour, min, sec)
  IN IF IsPanic(r) THEN r ELSE unwrap(r.v)

hms_milli_opt(tz, hour, min, sec, milli) ==
  LET t == NaiveTime_from_hms_milli_opt(hour, min, sec, milli)
  IN IF IsSome(t) THEN from_local_time(tz, t.v) ELSE Ret(LocalResult_None)
hms_milli(tz, hour, min, sec, milli) ==
  LET r == hms_milli_opt(tz, hour, min, sec, milli)
  IN IF IsPanic(r) THEN r ELSE unwrap(r.v)

hms_micro_opt(tz, hour, min, sec, micro) ==
  LET t == NaiveTime_from_hms_micro_opt(hour, min, sec, micro)
  IN IF IsSome(t) THEN from_local_time(tz, t.v) ELSE Ret(LocalResult_None)
hms_micro(tz, hour, min, sec, micro) ==
  LET r == hms_micro_opt(tz, hour, min, sec, micro)
  IN IF IsPanic(r) THEN r ELSE unwrap(r.v)

hms_nano_opt(tz, hour, min, sec, nano) ==
  LET t == NaiveTime_from_hms_nano_opt(hour, min, sec, nano)
  IN IF IsSome(t) THEN from_local_time(tz, t.v) ELSE Ret(LocalResult_None)
hms_nano(tz, hour, min, sec, nano) ==
  LET r == hms_nano_opt(tz, hour, min, sec, nano)
  IN IF IsPanic(r) THEN r ELSE unwrap(r.v)

\* Date::and_time and the and_hms family: Option<DateTime>, or a panic.
Date_and_time(self, time) ==
  LET local == naive_local(self)
  IN IF IsPanic(local) THEN local
     ELSE LET r == from_local_datetime(timezone(self), NaiveDate_and_time(local.v, time))
          IN IF IsPanic(r) THEN r ELSE Ret(single(r.v))

\* Option::and_then with Date::and_time.
and_then_and_time(self, t) == IF IsSome(t) THEN Date_and_time(self, t.v) ELSE Ret(OptNone)

Date_and_hms_opt(self, hour, min, sec) ==
  and_then_and_time(self, NaiveTime_from_hms_opt(hour, min, sec))
Date_and_hms_milli_opt(self, hour, min, sec, milli) ==
  and_then_and_time(self, NaiveTime_from_hms_milli_opt(hour, min, sec, milli))
Date_and_hms_micro_opt(self, hour, min, sec, micro) ==
  and_then_and_time(self, NaiveTime_from_hms_micro_opt(hour, min, sec, micro))
Date_and_hms_nano_opt(self, hour, min, sec, nano) ==
  and_then_and_time(self, NaiveTime_from_hms_nano_opt(hour, min, sec, nano))

\* r.expect("invalid time") of an Option that a panic may have pre-empted.
expect_time(r) == IF IsPanic(r) THEN r ELSE expect(r.v, "invalid time")

Date_and_hms(self, hour, min, sec) == expect_time(Date_and_hms_opt(self, hour, min, sec))
Date_and_hms_milli(self, hour, min, sec, milli) ==
  expect_time(Date_and_hms_milli_opt(self, hour, min, sec, milli))
Date_and_hms_micro(self, hour, min, sec, micro) ==
  expect_time(Date_and_hms_micro_opt(self, hour, min, sec, micro))
Date_and_hms_nano(self, hour, min, sec, nano) ==
  expect_time(Date_and_hms_nano_opt(self, hour, min, sec, nano))

\* Option::map_or(LocalResult::None, LocalResult::Single).
map_or_Single(r) ==
  IF IsPanic(r) THEN r
  ELSE IF IsSome(r.v) THEN Ret(LocalResult_Single(r.v.v)) ELSE Ret(LocalResult_None)

\* The combinators of LocalResult<Date>.
LocalResult_and_time(self, time) ==
  IF self.kind = "Single" THEN map_or_Single(Date_and_time(self.t, time))
  ELSE Ret(LocalResult_None)
LocalResult_and_hms_opt(self, hour, min, sec) ==
  IF self.kind = "Single" THEN map_or_Single(Date_and_hms_opt(self.t, hour, min, sec))
  ELSE Ret(LocalResult_None)
LocalResult_and_hms_milli_opt(self, hour, min, sec, milli) ==
  IF self.kind = "Single"
  THEN map_or_Single(Date_and_hms_milli_opt(self.t, hour, min, sec, milli))
  ELSE Ret(LocalResult_None)
LocalResult_and_hms_micro_opt(self, hour, min, sec, micro) ==
  IF self.kind = "Single"
  THEN map_or_Single(Date_and_hms_micro_opt(self.t, hour, min, sec, micro))
  ELSE Ret(LocalResult_None)
LocalResult_and_hms_nano_opt(self, hour, min, sec, nano) ==
  IF self.kind = "Single"
  THEN map_or_Single(Date_and_hms_nano_opt(self.t, hour, min, sec, nano))
  ELSE Ret(LocalResult_None)

-----------------------------------------------------------------------------
(* The state machine: a caller holds at most one Date (cur), makes one     *)
(* call at a time and sees its outcome (last), then goes on with a Date    *)
(* the outcome holds (Bind).                                               *)

VARIABLES cur, last
vars == <<cur, last>>

Idle == [op |-> "idle"]
\* A finished call: its name, zone argument (or ""), other arguments, the
\* receiver (an Option of Date), the shape of what it returns, its outcome.
Call(op, tz, args, recv, ty, res) ==
  [op |-> op, tz |-> tz, args |-> args, recv |-> recv, ty |-> ty, res |-> res]

\* The inputs the calls are tried on.
DayOf(y, m, d) == DaysBeforeYear(y) + DaysBeforeMonth(y, m) + d
DateInputs ==
  {NaiveDate_MIN, NaiveDate_MIN + 1, NaiveDate_MAX - 1, NaiveDate_MAX,
   SpringDate - 1, SpringDate, FallDate - 1, FallDate,
   DayOf(2011, 3, 1), DayOf(2012, 2, 29)} \cap NaiveDates
\* 2012-06-30 is the gap of Varying and 2012-12-30 its fold.
YmdInputs ==
  {<<2012, 2, 29>>, <<2012, 3, 4>>, <<2011, 2, 29>>, <<2012, 13, 1>>, <<2012, 4, 31>>,
   <<2012, 1, 0>>, <<MinYear, 1, 1>>, <<MinYear, 12, 31>>, <<MaxYear, 12, 31>>,
   <<MaxYear + 1, 1, 1>>, <<MinYear - 1, 12, 31>>,
   <<2012, 6, 29>>, <<2012, 6, 30>>, <<2012, 12, 29>>, <<2012, 12, 30>>}
YoInputs ==
  {<<2012, 60>>, <<2011, 366>>, <<2012, 366>>, <<2012, 0>>, <<2012, 182>>, <<2012, 365>>,
   <<MinYear, 1>>, <<MaxYear + 1, 1>>}
\* 2012-W09-3 is 2012-02-29, 2012-W26-6 is 2012-06-30 and 2012-W52-7 is
\* 2012-12-30; 2012 has 52 weeks.
IsoywdInputs ==
  {<<2012, 9, 2>>, <<2012, 26, 5>>, <<2012, 52, 6>>, <<2012, 53, 0>>, <<2012, 0, 0>>,
   <<MinYear, 1, 0>>, <<MaxYear + 1, 1, 0>>, <<MaxYear, 52, 6>>}
HmsInputs == {<<5, 6, 7>>, <<24, 0, 0>>, <<23, 59, 60>>, <<23, 60, 0>>}
\* hour, minute, second and a sub-second count, in each of the three units.
SubsecInputs ==
  {<<"milli", 23, 59, 59, 1999>>, <<"milli", 23, 59, 59, 2000>>,
   <<"micro", 5, 6, 7, 89>>, <<"micro", 23, 59, 59, 2000000>>,
   <<"nano", 23, 59, 59, 1999999999>>, <<"nano", 24, 0, 0, 0>>}
DurationInputs == {Duration_days(1), 36 * 3600, Duration_days(365), -3600}
TimeInputs ==
  {[secs |-> 5 * 3600 + 6 * 60 + 7, frac |-> 0], [secs |-> 86399, frac |-> 1999999999]}
FieldInputs ==
  {<<"with_year", 2011>>, <<"with_year", 2012>>, <<"with_year", MaxYear + 1>>,
   <<"with_month", 6>>, <<"with_month", 13>>,
   <<"with_month0", 1>>, <<"with_month0", 12>>,
   <<"with_day", 30>>, <<"with_day", 31>>, <<"with_day", 0>>,
   <<"with_day0", 29>>, <<"with_day0", 31>>,
   <<"with_ordinal", 182>>, <<"with_ordinal", 365>>, <<"with_ordinal", 366>>,
   <<"with_ordinal0", 364>>, <<"with_ordinal0", 366>>}

Init == cur = OptNone /\ last = Idle

\* --- constructors: a caller holding no Date asks a zone for one ---

FromUtcDate(tz, utc) ==
  /\ last.op = "idle" /\ cur = OptNone
  /\ cur' = OptNone
  /\ last' = Call("from_utc_date", tz, <<utc>>, OptNone, "Date", Ret(from_utc_date(tz, utc)))

FromLocalDate(tz, local) ==
  /\ last.op = "idle" /\ cur = OptNone
  /\ cur' = OptNone
  /\ last' = Call("from_local_date", tz, <<local>>, OptNone, "LocalResult",
                  from_local_date(tz, local))

\* tz.from_local_date(&tz.from_utc_date(&utc).naive_local())
RoundTrip(tz, utc) ==
  /\ last.op = "idle" /\ cur = OptNone
  /\ cur' = OptNone
  /\ last' = Call("round_trip", tz, <<utc>>, OptNone, "LocalResult",
                  LET local == naive_local(from_utc_date(tz, utc))
                  IN IF IsPanic(local) THEN local ELSE from_local_date(tz, local.v))

YmdOpt(tz, f) ==
  /\ last.op = "idle" /\ cur = OptNone
  /\ cur' = OptNone
  /\ last' = Call("ymd_opt", tz, f, OptNone, "LocalResult", ymd_opt(tz, f[1], f[2], f[3]))

Ymd(tz, f) ==
  /\ last.op = "idle" /\ cur = OptNone
  /\ cur' = OptNone
  /\ last' = Call("ymd", tz, f, OptNone, "Date", ymd(tz, f[1], f[2], f[3]))

YoOpt(tz, f) ==
  /\ last.op = "idle" /\ cur = OptNone
  /\ cur' = OptNone
  /\ last' = Call("yo_opt", tz, f, OptNone, "LocalResult", yo_opt(tz, f[1], f[2]))

Yo(tz, f) ==
  /\ last.op = "idle" /\ cur = OptNone
  /\ cur' = OptNone
  /\ last' = Call("yo", tz, f, OptNone, "Date", yo(tz, f[1], f[2]))

IsoywdOpt(tz, f) ==
  /\ last.op = "idle" /\ cur = OptNone
  /\ cur' = OptNone
  /\ last' = Call("isoywd_opt", tz, f, OptNone, "LocalResult",
                  isoywd_opt(tz, f[1], f[2], f[3]))

Isoywd(tz, f) ==
  /\ last.op = "idle" /\ cur = OptNone
  /\ cur' = OptNone
  /\ last' = Call("isoywd", tz, f, OptNone, "Date", isoywd(tz, f[1], f[2], f[3]))

HmsOpt(tz, f) ==
  /\ last.op = "idle" /\ cur = OptNone
  /\ cur' = OptNone
  /\ last' = Call("hms_opt", tz, f, OptNone, "Other", hms_opt(tz, f[1], f[2], f[3]))

Hms(tz, f) ==
  /\ last.op = "idle" /\ cur = OptNone
  /\ cur' = OptNone
  /\ last' = Call("hms", tz, f, OptNone, "Other", hms(tz, f[1], f[2], f[3]))

HmsSubsecOpt(tz, f) ==
  /\ last.op = "idle" /\ cur = OptNone
  /\ cur' = OptNone
  /\ last' = Call("hms_" \o f[1] \o "_opt", tz, f, OptNone, "Other",
                  CASE f[1] = "milli" -> hms_milli_opt(tz, f[2], f[3], f[4], f[5])
                    [] f[1] = "micro" -> hms_micro_opt(tz, f[2], f[3], f[4], f[5])
                    [] f[1] = "nano" -> hms_nano_opt(tz, f[2], f[3], f[4], f[5]))

HmsSubsec(tz, f) ==
  /\ last.op = "idle" /\ cur = OptNone
  /\ cur' = OptNone
  /\ last' = Call("hms_" \o f[1], tz, f, OptNone, "Other",
                  CASE f[1] = "milli" -> hms_milli(tz, f[2], f[3], f[4], f[5])
                    [] f[1] = "micro" -> hms_micro(tz, f[2], f[3], f[4], f[5])
                    [] f[1] = "nano" -> hms_nano(tz, f[2], f[3], f[4], f[5]))

\* --- the combinators of LocalResult<Date>, on what ymd_opt returned ---

LocalResult_and_subsec_opt(self, f) ==
  CASE f[1] = "milli" -> LocalResult_and_hms_milli_opt(self, f[2], f[3], f[4], f[5])
    [] f[1] = "micro" -> LocalResult_and_hms_micro_opt(self, f[2], f[3], f[4], f[5])
    [] f[1] = "nano" -> LocalResult_and_hms_nano_opt(self, f[2], f[3], f[4], f[5])

\* tz.ymd_opt(y, m, d).and_time(time)
ChainAndTime(tz, f, time) ==
  /\ last.op = "idle" /\ cur = OptNone
  /\ cur' = OptNone
  /\ LET self == ymd_opt(tz, f[1], f[2], f[3])
     IN last' = Call("LocalResult::and_time", tz, <<f, time>>, self, "Other",
                     IF IsPanic(self) THEN self ELSE LocalResult_and_time(self.v, time))

\* tz.ymd_opt(y, m, d).and_hms_opt(hour, min, sec)
ChainAndHmsOpt(tz, f, t) ==
  /\ last.op = "idle" /\ cur = OptNone
  /\ cur' = OptNone
  /\ LET self == ymd_opt(tz, f[1], f[2], f[3])
     IN last' = Call("LocalResult::and_hms_opt", tz, <<f, t>>, self, "Other",
                     IF IsPanic(self) THEN self
                     ELSE LocalResult_and_hms_opt(self.v, t[1], t[2], t[3]))

\* tz.ymd_opt(y, m, d).and_hms_milli_opt(...), _micro_opt, _nano_opt
ChainAndSubsecOpt(tz, f, t) ==
  /\ last.op = "idle" /\ cur = OptNone
  /\ cur' = OptNone
  /\ LET self == ymd_opt(tz, f[1], f[2], f[3])
     IN last' = Call("LocalResult::and_hms_" \o t[1] \o "_opt", tz, <<f, t>>, self, "Other",
                     IF IsPanic(self) THEN self ELSE LocalResult_and_subsec_opt(self.v, t))

\* --- calls on the Date the caller holds ---

\* LocalResult::Single(date).and_time(time), and the and_hms_opt family
SingleAndTime(time) ==
  /\ last.op = "idle" /\ IsSome(cur)
  /\ cur' = cur
  /\ LET self == LocalResult_Single(cur.v)
     IN last' = Call("LocalResult::and_time", "", <<time>>, Ret(self), "Other",
                     LocalResult_and_time(self, time))

SingleAndHmsOpt(t) ==
  /\ last.op = "idle" /\ IsSome(cur)
  /\ cur' = cur
  /\ LET self == LocalResult_Single(cur.v)
     IN last' = Call("LocalResult::and_hms_opt", "", <<t>>, Ret(self), "Other",
                     LocalResult_and_hms_opt(self, t[1], t[2], t[3]))

SingleAndSubsecOpt(t) ==
  /\ last.op = "idle" /\ IsSome(cur)
  /\ cur' = cur
  /\ LET self == LocalResult_Single(cur.v)
     IN last' = Call("LocalResult::and_hms_" \o t[1] \o "_opt", "", <<t>>, Ret(self), "Other",
                     LocalResult_and_subsec_opt(self, t))

AndTime(time) ==
  /\ last.op = "idle" /\ IsSome(cur)
  /\ cur' = cur
  /\ last' = Call("and_time", "", <<time>>, cur, "Other", Date_and_time(cur.v, time))

AndHmsOpt(t) ==
  /\ last.op = "idle" /\ IsSome(cur)
  /\ cur' = cur
  /\ last' = Call("and_hms_opt", "", t, cur, "Other",
                  Date_and_hms_opt(cur.v, t[1], t[2], t[3]))

AndHms(t) ==
  /\ last.op = "idle" /\ IsSome(cur)
  /\ cur' = cur
  /\ last' = Call("and_hms", "", t, cur, "Other", Date_and_hms(cur.v, t[1], t[2], t[3]))

AndSubsecOpt(t) ==
  /\ last.op = "idle" /\ IsSome(cur)
  /\ cur' = cur
  /\ last' = Call("and_hms_" \o t[1] \o "_opt", "", t, cur, "Other",
                  CASE t[1] = "milli" -> Date_and_hms_milli_opt(cur.v, t[2], t[3], t[4], t[5])
                    [] t[1] = "micro" -> Date_and_hms_micro_opt(cur.v, t[2], t[3], t[4], t[5])
                    [] t[1] = "nano" -> Date_and_hms_nano_opt(cur.v, t[2], t[3], t[4], t[5]))

AndSubsec(t) ==
  /\ last.op = "idle" /\ IsSome(cur)
  /\ cur' = cur
  /\ last' = Call("and_hms_" \o t[1], "", t, cur, "Other",
                  CASE t[1] = "milli" -> Date_and_hms_milli(cur.v, t[2], t[3], t[4], t[5])
                    [] t[1] = "micro" -> Date_and_hms_micro(cur.v, t[2], t[3], t[4], t[5])
                    [] t[1] = "nano" -> Date_and_hms_nano(cur.v, t[2], t[3], t[4], t[5]))

Succ ==
  /\ last.op = "idle" /\ IsSome(cur)
  /\ cur' = cur
  /\ last' = Call("succ", "", << >>, cur, "Date", succ(cur.v))

SuccOpt ==
  /\ last.op = "idle" /\ IsSome(cur)
  /\ cur' = cur
  /\ last' = Call("succ_opt", "", << >>, cur, "Option", Ret(succ_opt(cur.v)))

Pred ==
  /\ last.op = "idle" /\ IsSome(cur)
  /\ cur' = cur
  /\ last' = Call("pred", "", << >>, cur, "Date", pred(cur.v))

PredOpt ==
  /\ last.op = "idle" /\ IsSome(cur)
  /\ cur' = cur
  /\ last' = Call("pred_opt", "", << >>, cur, "Option", Ret(pred_opt(cur.v)))

WithTimezone(tz) ==
  /\ last.op = "idle" /\ IsSome(cur)
  /\ cur' = cur
  /\ last' = Call("with_timezone", tz, << >>, cur, "Date", Ret(with_timezone(cur.v, tz)))

WithField(f) ==
  /\ last.op = "idle" /\ IsSome(cur)
  /\ cur' = cur
  /\ last' = Call(f[1], "", <<f[2]>>, cur, "Option",
                  CASE f[1] = "with_year" -> with_year(cur.v, f[2])
                    [] f[1] = "with_month" -> with_month(cur.v, f[2])
                    [] f[1] = "with_month0" -> with_month0(cur.v, f[2])
                    [] f[1] = "with_day" -> with_day(cur.v, f[2])
                    [] f[1] = "with_day0" -> with_day0(cur.v, f[2])
                    [] f[1] = "with_ordinal" -> with_ordinal(cur.v, f[2])
                    [] f[1] = "with_ordinal0" -> with_ordinal0(cur.v, f[2]))

Add(rhs) ==
  /\ last.op = "idle" /\ IsSome(cur)
  /\ cur' = cur
  /\ last' = Call("add", "", <<rhs>>, cur, "Date", Date_add(cur.v, rhs))

SubDuration(rhs) ==
  /\ last.op = "idle" /\ IsSome(cur)
  /\ cur' = cur
  /\ last' = Call("sub_duration", "", <<rhs>>, cur, "Date", Date_sub_duration(cur.v, rhs))

\* The other operand of a comparison or a difference: a date of any zone on
\* the receiver's canonical date, on its local date, or on a date nearby.
Others(self) ==
  LET local == naive_local(self)
      dates == {self.date} \cup (IF IsRet(local) THEN {local.v} ELSE {})
  IN {from_utc_date(tz, d) : tz \in TimeZones, d \in dates}

Eq ==
  /\ last.op = "idle" /\ IsSome(cur)
  /\ cur' = cur
  /\ \E other \in Others(cur.v) :
       last' = Call("eq", "", <<other>>, cur, "Other", Ret(eq(cur.v, other)))

SubDate ==
  /\ last.op = "idle" /\ IsSome(cur)
  /\ cur' = cur
  /\ \E other \in Others(cur.v) :
       last' = Call("sub_date", "", <<other>>, cur, "Other", Ret(Date_sub(cur.v, other)))

NaiveUtc ==
  /\ last.op = "idle" /\ IsSome(cur)
  /\ cur' = cur
  /\ last' = Call("naive_utc", "", << >>, cur, "Other", Ret(naive_utc(cur.v)))

NaiveLocal ==
  /\ last.op = "idle" /\ IsSome(cur)
  /\ cur' = cur
  /\ last' = Call("naive_local", "", << >>, cur, "Other", naive_local(cur.v))

Debug ==
  /\ last.op = "idle" /\ IsSome(cur)
  /\ cur' = cur
  /\ last' = Call("debug", "", << >>, cur, "Other", Date_debug(cur.v))

\* --- the caller goes on ---

\* r.single(), r.earliest(), r.latest() and r.map(|d| d.naive_utc()) of the
\* LocalResult<Date> the last call returned.
Combine(m) ==
  /\ last.op # "idle" /\ last.ty = "LocalResult" /\ IsRet(last.res)
  /\ cur' = cur
  /\ last' = Call(m, last.tz, << >>, last.res, IF m = "map" THEN "Other" ELSE "Option",
                  CASE m = "single" -> Ret(single(last.res.v))
                    [] m = "earliest" -> Ret(earliest(last.res.v))
                    [] m = "latest" -> Ret(latest(last.res.v))
                    [] m = "map" ->
                         LocalResult_map(last.res.v,
                           [d \in [date : NaiveDates, offset : Offsets] |-> Ret(naive_utc(d))]))

\* The dates the caller can take out of the outcome of the last call: the
\* date itself, the date of a Some, or a date LocalResult::single, earliest
\* or latest yields.
Bindable(c) ==
  IF ~IsRet(c.res) THEN {}
  ELSE CASE c.ty = "Date" -> {c.res.v}
         [] c.ty = "Option" -> (IF IsSome(c.res.v) THEN {c.res.v.v} ELSE {})
         [] c.ty = "LocalResult" ->
              {o.v : o \in {o \in {single(c.res.v), earliest(c.res.v), latest(c.res.v)} :
                              IsSome(o)}}
         [] OTHER -> {}

Bind ==
  /\ last.op # "idle"
  /\ last' = Idle
  /\ cur' \in (IF Bindable(last) = {} THEN {cur} ELSE {Some(d) : d \in Bindable(last)})

Next ==
  \/ \E tz \in TimeZones, utc \in DateInputs : FromUtcDate(tz, utc)
  \/ \E tz \in TimeZones, local \in DateInputs : FromLocalDate(tz, local)
  \/ \E tz \in TimeZones, utc \in DateInputs : RoundTrip(tz, utc)
  \/ \E tz \in TimeZones, f \in YmdInputs : YmdOpt(tz, f)
  \/ \E tz \in TimeZones, f \in YmdInputs : Ymd(tz, f)
  \/ \E tz \in TimeZones, f \in YoInputs : YoOpt(tz, f)
  \/ \E tz \in TimeZones, f \in YoInputs : Yo(tz, f)
  \/ \E tz \in TimeZones, f \in IsoywdInputs : IsoywdOpt(tz, f)
  \/ \E tz \in TimeZones, f \in IsoywdInputs : Isoywd(tz, f)
  \/ \E tz \in TimeZones, f \in HmsInputs : HmsOpt(tz, f)
  \/ \E tz \in TimeZones, f \in HmsInputs : Hms(tz, f)
  \/ \E tz \in TimeZones, f \in SubsecInputs : HmsSubsecOpt(tz, f)
  \/ \E tz \in TimeZones, f \in SubsecInputs : HmsSubsec(tz, f)
  \/ \E tz \in TimeZones, f \in YmdInputs, time \in TimeInputs : ChainAndTime(tz, f, time)
  \/ \E tz \in TimeZones, f \in YmdInputs, t \in HmsInputs : ChainAndHmsOpt(tz, f, t)
  \/ \E tz \in TimeZones, f \in YmdInputs, t \in SubsecInputs : ChainAndSubsecOpt(tz, f, t)
  \/ \E time \in TimeInputs : SingleAndTime(time)
  \/ \E t \in HmsInputs : SingleAndHmsOpt(t)
  \/ \E t \in SubsecInputs : SingleAndSubsecOpt(t)
  \/ \E time \in TimeInputs : AndTime(time)
  \/ \E t \in HmsInputs : AndHmsOpt(t)
  \/ \E t \in HmsInputs : AndHms(t)
  \/ \E t \in SubsecInputs : AndSubsecOpt(t)
  \/ \E t \in SubsecInputs : AndSubsec(t)
  \/ Succ \/ SuccOpt \/ Pred \/ PredOpt
  \/ \E tz \in TimeZones : WithTimezone(tz)
  \/ \E f \in FieldInputs : WithField(f)
  \/ \E rhs \in DurationInputs : Add(rhs)
  \/ \E rhs \in DurationInputs : SubDuration(rhs)
  \/ Eq \/ SubDate
  \/ NaiveUtc \/ NaiveLocal \/ Debug
  \/ \E m \in {"single", "earliest", "latest", "map"} : Combine(m)
  \/ Bind

Spec == Init /\ [][Next]_vars

-----------------------------------------------------------------------------
(* The properties.                                                         *)

\* C1: canonical round trip.  For any zone tz and any canonical date X, the
\* local date of tz.from_utc_date(X), resolved by tz.from_local_date, gives
\* back one date, and its canonical date is X.
C1_CanonicalRoundTrip ==
  last.op = "round_trip" =>
    /\ IsRet(last.res)
    /\ last.res.v.kind = "Single"
    /\ naive_utc(last.res.v.t) = last.args[1]

\* C2: local round trip and rendering.  Where the zone resolves the valid
\* local date (y, m, d) as Single(s), ymd(y, m, d) returns a Date whose
\* canonical date is (y, m, d) - s.local_minus_utc(), whose naive_local() is
\* (y, m, d), and whose {:?} is the {:?} of that local date followed by the
\* {:?} of s; under UTC1y, ymd(2012, 2, 29) and ymd(2012, 3, 4) print as
\* 2012-02-29+8760:00 and 2012-03-04+8760:00.
C2_LocalRoundTripAndRendering ==
  last.op = "ymd" =>
    LET local == NaiveDate_from_ymd_opt(last.args[1], last.args[2], last.args[3])
        r == offset_from_local_date(last.tz, local.v)
    IN (IsSome(local) /\ r.kind = "Single") =>
         /\ IsRet(last.res)
         /\ naive_utc(last.res.v) = local.v - Duration_num_days(local_minus_utc(r.t))
         /\ last.res.v.offset = r.t
         /\ naive_local(last.res.v) = Ret(local.v)
         /\ Date_debug(last.res.v) = Ret(NaiveDate_debug(local.v) \o Offset_debug(r.t))
         /\ (last.tz = "UTC1y" /\ last.args = <<2012, 2, 29>>
               => Date_debug(last.res.v) = Ret("2012-02-29+8760:00"))
         /\ (last.tz = "UTC1y" /\ last.args = <<2012, 3, 4>>
               => Date_debug(last.res.v) = Ret("2012-03-04+8760:00"))

\* C3: cross-zone equality.  a == b exactly when a.naive_utc() ==
\* b.naive_utc(), whatever the two offsets and the two local dates are.
C3_CrossZoneEquality ==
  last.op = "eq" =>
    (last.res.v <=> naive_utc(last.recv.v) = naive_utc(last.args[1]))

\* C3 happens: two dates of different zones with the same local date and
\* different canonical dates were compared, and were unequal.
C3_Witness ==
  /\ last.op = "eq"
  /\ last.recv.v.offset # last.args[1].offset
  /\ IsRet(naive_local(last.recv.v))
  /\ naive_local(last.recv.v) = naive_local(last.args[1])
  /\ naive_utc(last.recv.v) # naive_utc(last.args[1])
  /\ last.res.v = FALSE

\* C4: zone retargeting.  V.with_timezone(B2) returns a Date (it never
\* fails) of the canonical date of V, with the offset B2 gives for that
\* canonical date.
C4_RetargetingKeepsCanonicalDate ==
  last.op = "with_timezone" =>
    /\ IsRet(last.res)
    /\ naive_utc(last.res.v) = naive_utc(last.recv.v)
    /\ last.res.v.offset = offset_from_utc_date(last.tz, naive_utc(last.recv.v))

\* C4 happens: a date was retargeted to another zone and its offset and its
\* local date changed.
C4_Witness ==
  /\ last.op = "with_timezone"
  /\ last.tz # timezone(last.recv.v)
  /\ IsRet(last.res)
  /\ last.res.v.offset # last.recv.v.offset
  /\ IsRet(naive_local(last.recv.v))
  /\ naive_local(last.res.v) # naive_local(last.recv.v)

\* C5: succ and pred are inverse.  For D not the last representable date
\* D.succ().pred() == D, and for D not the first one D.pred().succ() == D.
C5_SuccPredInverse ==
  /\ (last.op = "succ" /\ naive_utc(last.recv.v) # NaiveDate_MAX) =>
       /\ IsRet(last.res)
       /\ IsRet(pred(last.res.v))
       /\ eq(pred(last.res.v).v, last.recv.v)
  /\ (last.op = "pred" /\ naive_utc(last.recv.v) # NaiveDate_MIN) =>
       /\ IsRet(last.res)
       /\ IsRet(succ(last.res.v))
       /\ eq(succ(last.res.v).v, last.recv.v)

\* C5 happens: succ returned the last representable date, of a date whose
\* offset is not the one its zone gives for it, and pred of it is defined.
C5_Witness ==
  /\ last.op = "succ"
  /\ IsRet(last.res)
  /\ naive_utc(last.res.v) = NaiveDate_MAX
  /\ last.recv.v.offset # offset_from_utc_date(timezone(last.recv.v), naive_utc(last.recv.v))
  /\ IsRet(pred(last.res.v))

\* C6: the boundary of stepping.  succ_opt is None on the last representable
\* date and pred_opt on the first; on every other date they are Some of the
\* date one day later, one day earlier.  succ and pred panic exactly where
\* succ_opt and pred_opt are None, and return what they hold otherwise.
C6_SteppingBoundary ==
  /\ last.op = "succ_opt" =>
       /\ IsRet(last.res)
       /\ (naive_utc(last.recv.v) = NaiveDate_MAX => last.res.v = OptNone)
       /\ (naive_utc(last.recv.v) # NaiveDate_MAX =>
             IsSome(last.res.v) /\ naive_utc(last.res.v.v) = naive_utc(last.recv.v) + 1)
  /\ last.op = "pred_opt" =>
       /\ IsRet(last.res)
       /\ (naive_utc(last.recv.v) = NaiveDate_MIN => last.res.v = OptNone)
       /\ (naive_utc(last.recv.v) # NaiveDate_MIN =>
             IsSome(last.res.v) /\ naive_utc(last.res.v.v) = naive_utc(last.recv.v) - 1)
  /\ last.op = "succ" =>
       /\ (IsPanic(last.res) <=> naive_utc(last.recv.v) = NaiveDate_MAX)
       /\ (IsRet(last.res) => Some(last.res.v) = succ_opt(last.recv.v))
  /\ last.op = "pred" =>
       /\ (IsPanic(last.res) <=> naive_utc(last.recv.v) = NaiveDate_MIN)
       /\ (IsRet(last.res) => Some(last.res.v) = pred_opt(last.recv.v))

\* C6 happens: succ_opt was called on the last representable date and
\* returned None.
C6_Witness ==
  /\ last.op = "succ_opt"
  /\ naive_utc(last.recv.v) = NaiveDate_MAX
  /\ last.res = Ret(OptNone)

\* C7: failure of a field mutation.  with_year, with_month, with_month0,
\* with_day, with_day0, with_ordinal and with_ordinal0 mutate the local date
\* of the receiver and resolve the result in the receiver's zone: where the
\* mutated local date is valid and the zone resolves it as None or
\* Ambiguous they return None, and they return Some only of the one date a
\* Single resolution gives.
C7_FieldMutationFailure ==
  last.op \in {"with_year", "with_month", "with_month0", "with_day", "with_day0",
               "with_ordinal", "with_ordinal0"} =>
    LET self == last.recv.v
        local == naive_local(self)
        x == last.args[1]
        m == CASE last.op = "with_year" -> NaiveDate_with_year(local.v, x)
               [] last.op = "with_month" -> NaiveDate_with_month(local.v, x)
               [] last.op = "with_month0" -> NaiveDate_with_month0(local.v, x)
               [] last.op = "with_day" -> NaiveDate_with_day(local.v, x)
               [] last.op = "with_day0" -> NaiveDate_with_day0(local.v, x)
               [] last.op = "with_ordinal" -> NaiveDate_with_ordinal(local.v, x)
               [] last.op = "with_ordinal0" -> NaiveDate_with_ordinal0(local.v, x)
        r == offset_from_local_date(timezone(self), m.v)
    IN /\ (IsRet(local) /\ IsSome(m) /\ r.kind \in {"None", "Ambiguous"}) =>
            last.res = Ret(OptNone)
       /\ (IsRet(last.res) /\ IsSome(last.res.v)) =>
            /\ IsRet(local) /\ IsSome(m) /\ r.kind = "Single"
            /\ last.res.v.v =
                 Date_from_utc(m.v - Duration_num_days(local_minus_utc(r.t)), r.t)

\* C7 happens: with_day moved a date to a valid local date that its zone
\* resolves as Ambiguous, and returned None.
C7_Witness ==
  /\ last.op = "with_day"
  /\ IsRet(naive_local(last.recv.v))
  /\ IsSome(NaiveDate_with_day(naive_local(last.recv.v).v, last.args[1]))
  /\ offset_from_local_date(timezone(last.recv.v),
       NaiveDate_with_day(naive_local(last.recv.v).v, last.args[1]).v).kind = "Ambiguous"
  /\ last.res = Ret(OptNone)

\* C8: the chaining combinators collapse and never raise.  and_time,
\* and_hms_opt, and_hms_milli_opt, and_hms_micro_opt and and_hms_nano_opt of
\* a LocalResult<Date> return (they never panic) None or Single, never
\* Ambiguous: None when the receiver is None or Ambiguous, when the time
\* fields are invalid and when the zone resolves the local date and time as
\* None or Ambiguous, and Single otherwise.
C8_ChainingNeverRaises ==
  (/\ last.op \in {"LocalResult::and_time", "LocalResult::and_hms_opt",
                   "LocalResult::and_hms_milli_opt", "LocalResult::and_hms_micro_opt",
                   "LocalResult::and_hms_nano_opt"}
   /\ IsRet(last.recv)) =>
    LET self == last.recv.v
        t == last.args[Len(last.args)]
        time == CASE last.op = "LocalResult::and_time" -> Some(t)
                  [] last.op = "LocalResult::and_hms_opt" ->
                       NaiveTime_from_hms_opt(t[1], t[2], t[3])
                  [] last.op = "LocalResult::and_hms_milli_opt" ->
                       NaiveTime_from_hms_milli_opt(t[2], t[3], t[4], t[5])
                  [] last.op = "LocalResult::and_hms_micro_opt" ->
                       NaiveTime_from_hms_micro_opt(t[2], t[3], t[4], t[5])
                  [] last.op = "LocalResult::and_hms_nano_opt" ->
                       NaiveTime_from_hms_nano_opt(t[2], t[3], t[4], t[5])
        local == naive_local(self.t)
        r == offset_from_local_datetime(timezone(self.t),
                                        NaiveDate_and_time(local.v, time.v))
    IN /\ IsRet(last.res)
       /\ last.res.v.kind \in {"None", "Single"}
       /\ (self.kind # "Single" => last.res.v = LocalResult_None)
       /\ (~IsSome(time) => last.res.v = LocalResult_None)
       /\ (self.kind = "Single" /\ IsSome(time) /\ IsRet(local)) =>
            (last.res.v.kind = "Single" <=> r.kind = "Single")

\* C9: the two layers of validation.  ymd_opt, yo_opt, isoywd_opt, hms_opt
\* and hms_milli_opt, hms_micro_opt, hms_nano_opt return None when the
\* fields are invalid, and otherwise the variant (None, Single or Ambiguous)
\* the zone resolves the local value as.
C9_TwoLayerValidation ==
  last.op \in {"ymd_opt", "yo_opt", "isoywd_opt", "hms_opt", "hms_milli_opt",
               "hms_micro_opt", "hms_nano_opt"} =>
    LET f == last.args
        isDate == last.op \in {"ymd_opt", "yo_opt", "isoywd_opt"}
        naive == CASE last.op = "ymd_opt" -> NaiveDate_from_ymd_opt(f[1], f[2], f[3])
                   [] last.op = "yo_opt" -> NaiveDate_from_yo_opt(f[1], f[2])
                   [] last.op = "isoywd_opt" -> NaiveDate_from_isoywd_opt(f[1], f[2], f[3])
                   [] last.op = "hms_opt" -> NaiveTime_from_hms_opt(f[1], f[2], f[3])
                   [] last.op = "hms_milli_opt" ->
                        NaiveTime_from_hms_milli_opt(f[2], f[3], f[4], f[5])
                   [] last.op = "hms_micro_opt" ->
                        NaiveTime_from_hms_micro_opt(f[2], f[3], f[4], f[5])
                   [] last.op = "hms_nano_opt" ->
                        NaiveTime_from_hms_nano_opt(f[2], f[3], f[4], f[5])
        r == IF isDate THEN offset_from_local_date(last.tz, naive.v)
             ELSE offset_from_local_time(last.tz, naive.v)
    IN /\ IsRet(last.res)
       /\ (~IsSome(naive) => last.res.v = LocalResult_None)
       /\ (IsSome(naive) => last.res.v.kind = r.kind)

\* C10: the raising forms agree with the checked forms.  ymd, yo, isoywd,
\* hms, hms_milli, hms_micro and hms_nano return a value exactly when the
\* _opt form of the same arguments is Single, and then the value it holds;
\* where it is None they panic with "No such local time", and where it is
\* Ambiguous with "Ambiguous local time", reporting both candidates.
C10_RaisingFormAgreesWithChecked ==
  last.op \in {"ymd", "yo", "isoywd", "hms", "hms_milli", "hms_micro", "hms_nano"} =>
    LET f == last.args
        o == CASE last.op = "ymd" -> ymd_opt(last.tz, f[1], f[2], f[3])
               [] last.op = "yo" -> yo_opt(last.tz, f[1], f[2])
               [] last.op = "isoywd" -> isoywd_opt(last.tz, f[1], f[2], f[3])
               [] last.op = "hms" -> hms_opt(last.tz, f[1], f[2], f[3])
               [] last.op = "hms_milli" -> hms_milli_opt(last.tz, f[2], f[3], f[4], f[5])
               [] last.op = "hms_micro" -> hms_micro_opt(last.tz, f[2], f[3], f[4], f[5])
               [] last.op = "hms_nano" -> hms_nano_opt(last.tz, f[2], f[3], f[4], f[5])
    IN /\ IsRet(last.res) <=> (IsRet(o) /\ o.v.kind = "Single")
       /\ IsRet(last.res) => last.res.v = o.v.t
       /\ (IsRet(o) /\ o.v.kind = "None") => last.res = Panic("No such local time")
       /\ (IsRet(o) /\ o.v.kind = "Ambiguous") =>
            /\ IsPanic(last.res)
            /\ last.res.msg = "Ambiguous local time, ranging from {:?} to {:?}"
            /\ last.res.args = <<o.v.min, o.v.max>>

\* C10 happens: ymd was called with a local date its zone resolves as
\* Ambiguous, and panicked reporting two different candidates.
C10_Witness ==
  /\ last.op = "ymd"
  /\ IsRet(ymd_opt(last.tz, last.args[1], last.args[2], last.args[3]))
  /\ ymd_opt(last.tz, last.args[1], last.args[2], last.args[3]).v.kind = "Ambiguous"
  /\ IsPanic(last.res)
  /\ Len(last.res.args) = 2
  /\ last.res.args[1] # last.res.args[2]

\* C11: the algebra of conversion outcomes.  single yields t on Single(t) and
\* nothing on None and on Ambiguous(a, b); earliest yields t on Single(t), a
\* on Ambiguous(a, b), nothing on None; latest yields t, b, nothing; map(f)
\* yields None on None, Single(f(t)) on Single(t) and Ambiguous(f(a), f(b))
\* on Ambiguous(a, b), the members in their order.
C11_ConversionOutcomeAlgebra ==
  last.op \in {"single", "earliest", "latest", "map"} =>
    LET r == last.recv.v
    IN /\ IsRet(last.res)
       /\ (r.kind = "None" =>
             last.res.v = (IF last.op = "map" THEN LocalResult_None ELSE OptNone))
       /\ (r.kind = "Single" =>
             last.res.v = (IF last.op = "map" THEN LocalResult_Single(naive_utc(r.t))
                           ELSE Some(r.t)))
       /\ (r.kind = "Ambiguous" =>
             last.res.v =
               CASE last.op = "single" -> OptNone
                 [] last.op = "earliest" -> Some(r.min)
                 [] last.op = "latest" -> Some(r.max)
                 [] last.op = "map" ->
                      LocalResult_Ambiguous(naive_utc(r.min), naive_utc(r.max)))

\* C11 happens: latest was called on an Ambiguous result of two different
\* members and yielded the second.
C11_Witness ==
  /\ last.op = "latest"
  /\ last.recv.v.kind = "Ambiguous"
  /\ last.recv.v.min # last.recv.v.max
  /\ last.res = Ret(Some(last.recv.v.max))

\* C12: and_time preserves the offset.  Whenever and_time, and_hms_opt,
\* and_hms_milli_opt, and_hms_micro_opt or and_hms_nano_opt of a Date returns
\* a DateTime, the DateTime carries the offset of the Date.
C12_AndTimePreservesOffset ==
  (/\ last.op \in {"and_time", "and_hms_opt", "and_hms_milli_opt", "and_hms_micro_opt",
                   "and_hms_nano_opt"}
   /\ IsRet(last.res)
   /\ IsSome(last.res.v)) =>
    last.res.v.v.offset = last.recv.v.offset

\* C13: the checked constructors return.  ymd_opt, yo_opt and isoywd_opt
\* return a LocalResult for every zone and every input, and None for a date
\* that is invalid or out of range; they never panic, also not for a valid
\* local date whose canonical date is out of range.
C13_CheckedConstructorsReturn ==
  last.op \in {"ymd_opt", "yo_opt", "isoywd_opt"} =>
    LET f == last.args
        naive == CASE last.op = "ymd_opt" -> NaiveDate_from_ymd_opt(f[1], f[2], f[3])
                   [] last.op = "yo_opt" -> NaiveDate_from_yo_opt(f[1], f[2])
                   [] last.op = "isoywd_opt" -> NaiveDate_from_isoywd_opt(f[1], f[2], f[3])
    IN /\ IsRet(last.res)
       /\ last.res.v.kind \in {"None", "Single", "Ambiguous"}
       /\ (~IsSome(naive) => last.res.v = LocalResult_None)

C15_ArithmeticKeepsOffset ==
  /\ (last.op \in {"succ_opt", "pred_opt"} /\ IsSome(last.res.v)) =>
       /\ last.res.v.v.offset = last.recv.v.offset
       /\ naive_utc(last.res.v.v) =
            naive_utc(last.recv.v) + (IF last.op = "succ_opt" THEN 1 ELSE -1)
  /\ last.op \in {"add", "sub_duration"} =>
       LET r == IF last.op = "add" THEN last.args[1] ELSE -last.args[1]
           date == NaiveDate_add(naive_utc(last.recv.v), r)
       IN /\ IsRet(last.res) <=> IsRet(date)
          /\ IsRet(last.res) =>
               /\ last.res.v.offset = last.recv.v.offset
               /\ naive_utc(last.res.v) = date.v
  /\ last.op = "sub_date" =>
       last.res = Ret(NaiveDate_diff(naive_utc(last.recv.v), naive_utc(last.args[1])))

\* C15 happens: a duration was added to a date across a change of its zone's
\* skew, and the sum carries the old offset, not the one the zone gives for
\* the new canonical date.
C15_Witness ==
  /\ last.op = "add"
  /\ IsRet(last.res)
  /\ naive_utc(last.res.v) # naive_utc(last.recv.v)
  /\ last.res.v.offset = last.recv.v.offset
  /\ last.res.v.offset # offset_from_utc_date(timezone(last.res.v), naive_utc(last.res.v))

\* C16: the local view is always derivable.  For every Date a caller holds,
\* got from a constructor and any sequence of steps, sums, retargetings and
\* field mutations that returned a value, the canonical date plus
\* local_minus_utc() is a representable date, so naive_local() and the
\* debug rendering return.
C16_LocalViewDerivable ==
  /\ IsSome(cur) =>
       /\ naive_utc(cur.v) + Duration_num_days(local_minus_utc(cur.v.offset)) \in NaiveDates
       /\ IsRet(naive_local(cur.v))
  /\ last.op \in {"naive_local", "debug"} => IsRet(last.res)

====
